---- MODULE Spec2Model ----
(***************************************************************************)
(* Model of kliff's NeuralNetwork (src/kliff/models/neural_network.py):    *)
(* the one-shot add_layers configuration step and the KIM export           *)
(* (write_kim_model and the helpers it calls).                             *)
(*                                                                         *)
(* Probabilities are integers in percent (p = 20 is a dropout rate 0.2).   *)
(* A layer object is referred to by its 1-based position in self.layers,   *)
(* so a group is a sequence of positions and the stored parameters of the  *)
(* linear layer at position k are the symbols <<k, o, i>> (weight of       *)
(* output unit o, input unit i) and <<k, o>> (bias of output unit o).      *)
(*                                                                         *)
(* The data pipeline of src/openkim_fit/ann.py is modelled next to it: the *)
(* two mean / standard deviation strategies (SpecStats), the conversion    *)
(* functions that write tfrecords files and the normalization file into a  *)
(* directory (SpecConvert), and the text of the normalization file         *)
(* (SpecNorm). Statistics are exact rationals [num, den]; a standard       *)
(* deviation is carried as its square, the variance.                       *)
(***************************************************************************)
EXTENDS Integers, Sequences, FiniteSets, TLC

\* ---------------------------------------------------------------- bounds
MaxLayers == 5
NumDesc == 2

\* ------------------------------------------------------ program constants
Repeat == 50

ParamLayer == {"Linear"}
ActivLayer == {"Sigmoid", "Tanh", "ReLU", "ELU"}
DropoutLayer == {"Dropout"}
Supported == ParamLayer \cup ActivLayer \cup DropoutLayer

DescName == "descriptor.params"
NNName == "NN.params"
DropoutName == "dropout_binary.params"
CMakeName == "CMakeLists.txt"
ParamFiles == <<DescName, NNName, DropoutName>>

\* exception classes a call can end with ("none": the call returned)
NoError == "none"
NeuralNetworkError == "NeuralNetworkError"
AttributeError == "AttributeError"
IndexError == "IndexError"
FileNotFoundError == "FileNotFoundError"
TypeError == "TypeError"

\* ------------------------------------------------------------- the inputs
\* layer widths: a single unit, or as many units as the descriptor has channels
Widths == {1, NumDesc}
Rates == {20}
Seeds == {0, 1}

\* torch.nn layer objects: the class name and the attributes the code reads
Linear(i, o) == [kind |-> "Linear", in_features |-> i, out_features |-> o, p |-> 0]
Activation(k) == [kind |-> k, in_features |-> 0, out_features |-> 0, p |-> 0]
Dropout(r) == [kind |-> "Dropout", in_features |-> 0, out_features |-> 0, p |-> r]

Layer ==
    {Linear(i, o) : i \in Widths, o \in Widths}
        \cup {Activation(k) : k \in {"Sigmoid", "Tanh", "Softplus"}}
        \cup {Dropout(r) : r \in Rates}

Stacks == UNION {[1..n -> Layer] : n \in 0..MaxLayers}

\* arguments of a call that finds self.layers already set; the call raises
\* before it reads them
RetryStacks == {<<Linear(NumDesc, 1)>>}

\* only torch.nn.Linear has in_features / out_features
HasFeatures(la) == la.kind = "Linear"

\* name[:7]
Prefix7(name) == IF name = "Softplus" THEN "Softplu" ELSE name

\* name.lower()
Lower(name) ==
    CASE name = "Sigmoid" -> "sigmoid"
      [] name = "Tanh" -> "tanh"
      [] name = "ReLU" -> "relu"
      [] name = "ELU" -> "elu"
      [] OTHER -> name

VARIABLES
    descSize,     \* len(self.descriptor), the descriptor-channel count
    hasLayers,    \* self.layers is not None
    layers,       \* self.layers (<<>> while it is None)
    accepted,     \* add_layers has returned normally on this model
    dirExists,    \* the output directory exists
    files,        \* the four files of the output directory, <<>> when absent
    lastOp,       \* the method called last
    lastErr,      \* how that call ended
    lastWritten   \* the files that call opened for writing

\* ann.py
VARIABLE
    repeatArg     \* the repeat argument of the last write_kim_dropout_binary

VARIABLES
    configs,      \* the dataset: a sequence of configurations, each the
                  \* sequence of its atoms' environments
    numChannels,  \* the descriptor's channel count
    wf,           \* the Welford loop: rows done, n, mean, M2
    welford,      \* what welford_mean_and_std returned, <<>> before
    batch,        \* what numpy_mean_and_std returned, <<>> before
    stats,        \* the mean and std a conversion holds, <<>> when none
    dir,          \* the data directory: its files, <<>> when absent
    call          \* the conversion call made last: its number n, whether it
                  \* ran the conversion and with which flags, how it ended

nnVars == <<descSize, hasLayers, layers, accepted, dirExists, files, lastOp, lastErr, lastWritten,
            repeatArg>>
annVars == <<configs, numChannels, wf, welford, batch, stats, dir, call>>
vars == <<nnVars, annVars>>

\* repeat=None, the default of write_kim_dropout_binary
None == -1

NoFiles == [cmake |-> <<>>, nn |-> <<>>, desc |-> <<>>, dropout |-> <<>>]

InitNN ==
    /\ descSize = NumDesc
    /\ hasLayers = FALSE
    /\ layers = <<>>
    /\ accepted = FALSE
    /\ dirExists = FALSE
    /\ files = NoFiles
    /\ lastOp = "__init__"
    /\ lastErr = NoError
    /\ lastWritten = {}
    /\ repeatArg = None

\* no dataset, nothing computed, no data directory
NoCall == [op |-> "none", n |-> 0, size |-> 0, err |-> NoError, msg |-> <<>>, written |-> {},
           ran |-> FALSE, do_normalize |-> FALSE, use_welford |-> FALSE,
           oom |-> FALSE, tr |-> <<>>, va |-> <<>>]
NoDir == [exists |-> FALSE, norm |-> <<>>, train |-> <<>>, validation |-> <<>>,
          test |-> <<>>, named |-> <<>>]

IdleANN ==
    /\ configs = <<>>
    /\ numChannels = 1
    /\ wf = [k |-> 0, n |-> 0, mean |-> <<>>, M2 |-> <<>>]
    /\ welford = <<>>
    /\ batch = <<>>
    /\ stats = <<>>
    /\ dir = NoDir
    /\ call = NoCall

Init == InitNN /\ IdleANN

\* ------------------------------------------------------------- add_layers
AddLayersShape(ls, size) ==
    IF Len(ls) = 0 THEN IndexError
    ELSE IF ~HasFeatures(ls[1]) THEN AttributeError
    ELSE IF ls[1].in_features # size THEN NeuralNetworkError
    ELSE IF ~HasFeatures(ls[Len(ls)]) THEN AttributeError
    ELSE IF ls[Len(ls)].out_features # 1 THEN NeuralNetworkError
    ELSE NoError

\* add_layers without the "called multiple times" check
AddLayersResultNoLock(has, cur, new, size) ==
    [has |-> TRUE, layers |-> cur \o new, err |-> AddLayersShape(cur \o new, size)]

\* add_layers that takes the layers out again when a shape check fails
AddLayersResultRollBack(has, cur, new, size) ==
    IF has
    THEN [has |-> TRUE, layers |-> cur, err |-> NeuralNetworkError]
    ELSE IF AddLayersShape(new, size) = NoError
    THEN [has |-> TRUE, layers |-> new, err |-> NoError]
    ELSE [has |-> FALSE, layers |-> <<>>, err |-> AddLayersShape(new, size)]

AddLayersResult(has, cur, new, size) ==
    IF has
    THEN [has |-> TRUE, layers |-> cur, err |-> NeuralNetworkError]
    ELSE [has |-> TRUE, layers |-> new, err |-> AddLayersShape(new, size)]

AddLayers ==
    \E new \in (IF hasLayers THEN RetryStacks ELSE Stacks) :
        LET r == AddLayersResult(hasLayers, layers, new, descSize) IN
        /\ hasLayers' = r.has
        /\ layers' = r.layers
        /\ accepted' = (accepted \/ r.err = NoError)
        /\ lastOp' = "add_layers"
        /\ lastErr' = r.err
        /\ lastWritten' = {}
        /\ UNCHANGED <<descSize, dirExists, files, repeatArg>>
        /\ UNCHANGED annVars

\* ---------------------------------------------------------------- forward
\* the layers forward applies to its input, in order; self.layers is None
\* before add_layers, and enumerate(None) raises
Forward(has, ls) ==
    IF ~has
    THEN [err |-> TypeError, applied |-> <<>>]
    ELSE [err |-> NoError, applied |-> [j \in 1..Len(ls) |-> ls[j]]]

\* ---------------------------------------------------------- _group_layers
\* self.layers[i - 1] for the 1-based position i: Python's index -1 is the
\* last element
Previous(ls, i) == ls[IF i = 1 THEN Len(ls) ELSE i - 1]

Raised(e) == [err |-> e, groups |-> <<>>]

RECURSIVE GroupLoop(_, _, _, _)
GroupLoop(ls, i, groups, new_group) ==
    IF i > Len(ls)
    THEN [err |-> NoError, groups |-> Append(groups, new_group)]
    ELSE LET name == ls[i].kind
             prev == Previous(ls, i).kind
         IN  IF name \notin Supported THEN Raised(NeuralNetworkError)
             ELSE IF name \in ActivLayer /\ i = 1 THEN Raised(NeuralNetworkError)
             ELSE IF name \in ActivLayer /\ prev \notin ParamLayer
                  THEN Raised(NeuralNetworkError)
             ELSE IF Prefix7(name) \in DropoutLayer /\ prev \notin ActivLayer
                  THEN Raised(NeuralNetworkError)
             ELSE IF name \in ParamLayer
                  THEN GroupLoop(ls, i + 1, Append(groups, new_group), <<i>>)
             ELSE GroupLoop(ls, i + 1, groups, Append(new_group, i))

\* enumerate(None) raises TypeError
GroupLayers(has, ls) ==
    IF ~has THEN Raised(TypeError) ELSE GroupLoop(ls, 1, <<>>, <<>>)

\* the concatenation of a sequence of sequences
RECURSIVE Flatten(_)
Flatten(ss) == IF Len(ss) = 0 THEN <<>> ELSE Head(ss) \o Flatten(Tail(ss))

\* ------------------------------------------------ _get_weights_and_biases
Weight(ls, k) ==
    [o \in 1..ls[k].out_features |-> [i \in 1..ls[k].in_features |-> <<k, o, i>>]]

Bias(ls, k) == [o \in 1..ls[k].out_features |-> <<k, o>>]

\* _get_weights_and_biases that also skips the last group
GetWeightsAndBiasesSkipLast(has, ls) ==
    LET gl == GroupLayers(has, ls)
        g == gl.groups
        one(i) == IF i # 1 /\ i # Len(g) /\ ls[g[i][1]].kind \in ParamLayer
                  THEN <<g[i][1]>> ELSE <<>>
        at == Flatten([i \in 1..Len(g) |-> one(i)])
    IN  IF gl.err # NoError
        THEN [err |-> gl.err, weights |-> <<>>, biases |-> <<>>]
        ELSE [err |-> NoError,
              weights |-> [j \in 1..Len(at) |-> Weight(ls, at[j])],
              biases |-> [j \in 1..Len(at) |-> Bias(ls, at[j])]]

GetWeightsAndBiases(has, ls) ==
    LET gl == GroupLayers(has, ls)
        g == gl.groups
        one(i) == IF i # 1 /\ ls[g[i][1]].kind \in ParamLayer
                  THEN <<g[i][1]>> ELSE <<>>
        at == Flatten([i \in 1..Len(g) |-> one(i)])
    IN  IF gl.err # NoError
        THEN [err |-> gl.err, weights |-> <<>>, biases |-> <<>>]
        ELSE IF \E i \in 2..Len(g) : Len(g[i]) = 0
        THEN [err |-> IndexError, weights |-> <<>>, biases |-> <<>>]
        ELSE [err |-> NoError,
              weights |-> [j \in 1..Len(at) |-> Weight(ls, at[j])],
              biases |-> [j \in 1..Len(at) |-> Bias(ls, at[j])]]

\* -------------------------------------------------------- _get_activations
\* _get_activations that refuses hidden groups of different activations
GetActivationsUniform(has, ls) ==
    LET gl == GroupLayers(has, ls)
        g == gl.groups
        one(i) == IF i # 1 /\ i # Len(g) /\ ls[g[i][2]].kind \in ActivLayer
                  THEN <<Lower(ls[g[i][2]].kind)>> ELSE <<>>
    IN  IF gl.err # NoError
        THEN [err |-> gl.err, activations |-> <<>>]
        ELSE IF \E i \in 2..(Len(g) - 1) : Len(g[i]) < 2
        THEN [err |-> IndexError, activations |-> <<>>]
        ELSE IF \E i, j \in 2..(Len(g) - 1) : one(i) # one(j)
        THEN [err |-> NeuralNetworkError, activations |-> <<>>]
        ELSE [err |-> NoError,
              activations |-> Flatten([i \in 1..Len(g) |-> one(i)])]

GetActivations(has, ls) ==
    LET gl == GroupLayers(has, ls)
        g == gl.groups
        one(i) == IF i # 1 /\ i # Len(g) /\ ls[g[i][2]].kind \in ActivLayer
                  THEN <<Lower(ls[g[i][2]].kind)>> ELSE <<>>
    IN  IF gl.err # NoError
        THEN [err |-> gl.err, activations |-> <<>>]
        ELSE IF \E i \in 2..(Len(g) - 1) : Len(g[i]) < 2
        THEN [err |-> IndexError, activations |-> <<>>]
        ELSE [err |-> NoError,
              activations |-> Flatten([i \in 1..Len(g) |-> one(i)])]

\* -------------------------------------------------------- _get_drop_ratios
\* _get_drop_ratios without the 0.0 default of a hidden group that has no
\* dropout
GetDropRatiosNoDefault(has, ls) ==
    LET gl == GroupLayers(has, ls)
        g == gl.groups
        one(i) ==
            IF i = 1
            THEN IF Len(g[i]) # 0 THEN <<ls[g[i][1]].p>> ELSE <<0>>
            ELSE IF i = Len(g) THEN <<>>
            ELSE IF Len(g[i]) = 3 THEN <<ls[g[i][3]].p>> ELSE <<>>
    IN  IF gl.err # NoError
        THEN [err |-> gl.err, drop_ratios |-> <<>>]
        ELSE [err |-> NoError,
              drop_ratios |-> Flatten([i \in 1..Len(g) |-> one(i)])]

GetDropRatios(has, ls) ==
    LET gl == GroupLayers(has, ls)
        g == gl.groups
        one(i) ==
            IF i = 1
            THEN IF Len(g[i]) # 0
                 THEN IF ls[g[i][1]].kind \in DropoutLayer
                      THEN <<ls[g[i][1]].p>> ELSE <<>>
                 ELSE <<0>>
            ELSE IF i = Len(g) THEN <<>>
            ELSE IF Len(g[i]) = 3
                 THEN IF ls[g[i][3]].kind \in DropoutLayer
                      THEN <<ls[g[i][3]].p>> ELSE <<>>
                 ELSE <<0>>
    IN  IF gl.err # NoError
        THEN [err |-> gl.err, drop_ratios |-> <<>>]
        ELSE [err |-> NoError,
              drop_ratios |-> Flatten([i \in 1..Len(g) |-> one(i)])]

\* -------------------------------------------------------- write_kim_params
\* torch.t: entry (r, c) of the result is entry (c, r) of w
TransposeKept(w) == w

Transpose(w) == [r \in 1..Len(w[1]) |-> [c \in 1..Len(w) |-> w[c][r]]]

KeepProb(ratios) == [i \in 1..Len(ratios) |-> 100 - ratios[i]]

NotOpened(e) == [err |-> e, opened |-> FALSE, content |-> <<>>]

\* the file after the layer-count and layer-size lines, nothing after them
PartialParams(weights, biases) ==
    [num_layers |-> Len(weights),
     sizes |-> [j \in 1..Len(biases) |-> Len(biases[j])],
     activation |-> <<>>,
     keep_prob |-> <<>>,
     blocks |-> <<>>,
     complete |-> FALSE]

WriteKimParams(has, ls) ==
    LET wb == GetWeightsAndBiases(has, ls)
        ac == GetActivations(has, ls)
        dr == GetDropRatios(has, ls)
        weights == [j \in 1..Len(wb.weights) |-> Transpose(wb.weights[j])]
        part == PartialParams(weights, wb.biases)
    IN  IF wb.err # NoError THEN NotOpened(wb.err)
        ELSE IF ac.err # NoError THEN NotOpened(ac.err)
        ELSE IF dr.err # NoError THEN NotOpened(dr.err)
        ELSE IF Len(ac.activations) = 0
        THEN [err |-> IndexError, opened |-> TRUE, content |-> <<part>>]
        ELSE [err |-> NoError, opened |-> TRUE,
              content |->
                <<[part EXCEPT
                    !.activation = <<ac.activations[1]>>,
                    !.keep_prob = KeepProb(dr.drop_ratios),
                    !.blocks = [j \in 1..Len(weights) |->
                                  [rows |-> Len(weights[j]),
                                   cols |-> Len(weights[j][1]),
                                   weight |-> weights[j],
                                   bias |-> wb.biases[j]]],
                    !.complete = TRUE]>>]

\* ------------------------------------------------ write_kim_dropout_binary
\* np.random.uniform(k, k + 1, n)[j] of instance rep, layer i, in percent:
\* k plus an offset in [0, 100) drawn from the generator's stream
Uniform(seed, rep, i, j, k) == k + ((41 * seed + 29 * rep + 17 * i + 7 * j) % 100)

Clip(d) == IF d > 1 THEN 1 ELSE IF d < 0 THEN 0 ELSE d

MaskRow(seed, rep, i, n, k) ==
    [j \in 1..n |-> Clip(Uniform(seed, rep, i, j, k) \div 100)]

\* num_units without the descriptor size in front
NumUnitsNoInput(size, biases) == [j \in 1..Len(biases) |-> Len(biases[j])]

\* num_units: the descriptor size, then the length of every bias
NumUnits(size, biases) == <<size>> \o [j \in 1..Len(biases) |-> Len(biases[j])]

\* the repeat count of the commented-out lines: 0 without dropout, else the
\* argument, 50 when it is None
RepeatUsedNoDrop(repeat, drop_ratios) ==
    IF \A i \in 1..Len(drop_ratios) : drop_ratios[i] = 0 THEN 0
    ELSE IF repeat = None THEN Repeat
    ELSE repeat

\* repeat = 50: the argument is overwritten before it is read
RepeatUsed(repeat, drop_ratios) == Repeat

WriteKimDropoutBinary(has, ls, size, repeat, seed) ==
    LET dr == GetDropRatios(has, ls)
        keep_prob == KeepProb(dr.drop_ratios)
        wb == GetWeightsAndBiases(has, ls)
        num_units == NumUnits(size, wb.biases)
    IN  IF dr.err # NoError THEN NotOpened(dr.err)
        ELSE IF wb.err # NoError THEN NotOpened(wb.err)
        ELSE IF Len(keep_prob) > Len(num_units)
        THEN [err |-> IndexError, opened |-> TRUE,
              content |-> <<[repeat |-> RepeatUsed(repeat, dr.drop_ratios),
                             instances |-> <<>>]>>]
        ELSE [err |-> NoError, opened |-> TRUE,
              content |->
                <<[repeat |-> RepeatUsed(repeat, dr.drop_ratios),
                   instances |->
                     [rep \in 1..RepeatUsed(repeat, dr.drop_ratios) |->
                        [i \in 1..Len(keep_prob) |->
                           MaskRow(seed, rep, i, num_units[i], keep_prob[i])]]]>>]

\* ---------------------------------------------------- write_kim_cmakelists
WriteKimCmakelists(modelname, paramfiles, version) ==
    [modelname |-> modelname,
     drivername |-> "dNN_WT__MD_000000111111_000",
     paramfiles |-> paramfiles,
     version |-> version]

\* self.descriptor.write_kim_params: the descriptor's own parameter file
DescriptorWriteKimParams(size) == [size |-> size]

\* --------------------------------------------------------- write_kim_model
\* the directory and the outcome once the four writers have run in order:
\* cm, np, ds, db are what write_kim_cmakelists, write_kim_params, the
\* descriptor's write_kim_params and write_kim_dropout_binary do; a writer
\* that raises ends the call
WriteInOrderAppend(old, cm, np, ds, db) ==
    IF np.err # NoError
    THEN [files |-> [old EXCEPT !.cmake = <<cm>>,
                                !.nn = IF np.opened THEN @ \o np.content ELSE @],
          err |-> np.err,
          written |-> {CMakeName} \cup (IF np.opened THEN {NNName} ELSE {})]
    ELSE [files |-> [cmake |-> <<cm>>,
                     nn |-> old.nn \o np.content,
                     desc |-> <<ds>>,
                     dropout |-> IF db.opened THEN db.content ELSE old.dropout],
          err |-> db.err,
          written |-> {CMakeName, NNName, DescName}
                        \cup (IF db.opened THEN {DropoutName} ELSE {})]

WriteInOrder(old, cm, np, ds, db) ==
    IF np.err # NoError
    THEN [files |-> [old EXCEPT !.cmake = <<cm>>,
                                !.nn = IF np.opened THEN np.content ELSE @],
          err |-> np.err,
          written |-> {CMakeName} \cup (IF np.opened THEN {NNName} ELSE {})]
    ELSE [files |-> [cmake |-> <<cm>>,
                     nn |-> np.content,
                     desc |-> <<ds>>,
                     dropout |-> IF db.opened THEN db.content ELSE old.dropout],
          err |-> db.err,
          written |-> {CMakeName, NNName, DescName}
                        \cup (IF db.opened THEN {DropoutName} ELSE {})]

WriteKimModelResult(has, ls, size, old, seed) ==
    WriteInOrder(old,
                 WriteKimCmakelists("NeuralNetwork_KLIFF__MO_000000111111_000",
                                    ParamFiles, "2.0.2"),
                 WriteKimParams(has, ls),
                 DescriptorWriteKimParams(size),
                 WriteKimDropoutBinary(has, ls, size, None, seed))

WriteKimModel ==
    \E seed \in Seeds :
        LET r == WriteKimModelResult(hasLayers, layers, descSize, files, seed) IN
        /\ dirExists' = TRUE
        /\ files' = r.files
        /\ lastOp' = "write_kim_model"
        /\ lastErr' = r.err
        /\ lastWritten' = r.written
        /\ repeatArg' = None
        /\ UNCHANGED <<descSize, hasLayers, layers, accepted>>
        /\ UNCHANGED annVars

Next ==
    \/ AddLayers
    \/ WriteKimModel

Spec == Init /\ [][Next]_vars

\* ------------------------------- write_kim_dropout_binary, called directly
\* the values a caller passes for repeat
Repeats == {None, 0, 3}

\* write_kim_dropout_binary(path, repeat=repeat) on the model directory: open
\* raises when the directory is not there
WriteKimDropoutBinaryCall ==
    \E repeat \in Repeats, seed \in Seeds :
        LET r == WriteKimDropoutBinary(hasLayers, layers, descSize, repeat, seed)
            opened == r.opened /\ dirExists
        IN
        /\ files' = IF opened THEN [files EXCEPT !.dropout = r.content] ELSE files
        /\ lastOp' = "write_kim_dropout_binary"
        /\ lastErr' = IF r.opened /\ ~dirExists THEN FileNotFoundError ELSE r.err
        /\ lastWritten' = IF opened THEN {DropoutName} ELSE {}
        /\ repeatArg' = repeat
        /\ UNCHANGED <<descSize, hasLayers, layers, accepted, dirExists>>
        /\ UNCHANGED annVars

\* the stacks of at most MaxDropoutLayers layers that add_layers accepts
MaxDropoutLayers == 4

DropoutModels ==
    {s \in UNION {[1..n -> Layer] : n \in 1..MaxDropoutLayers} :
        AddLayersShape(s, NumDesc) = NoError}

\* a model after construction and one add_layers call that returned
InitDropout ==
    /\ \E new \in DropoutModels :
        LET r == AddLayersResult(FALSE, <<>>, new, NumDesc) IN
        /\ hasLayers = r.has
        /\ layers = r.layers
        /\ accepted = (r.err = NoError)
        /\ lastErr = r.err
    /\ descSize = NumDesc
    /\ dirExists = FALSE
    /\ files = NoFiles
    /\ lastOp = "add_layers"
    /\ lastWritten = {}
    /\ repeatArg = None
    /\ IdleANN

NextDropout ==
    \/ WriteKimModel
    \/ WriteKimDropoutBinaryCall

SpecDropout == InitDropout /\ [][NextDropout]_vars

(***************************************************************************)
(* src/openkim_fit/ann.py: mean and standard deviation of the fingerprints *)
(***************************************************************************)

\* bound of the datasets: the atoms, one row each, of all configurations
MaxRows == 3

MemoryError == "MemoryError"
ValueError == "ValueError"
IOError == "IOError"
SizeMismatch == "Exception"

\* the environments an atom can have, the channel counts of a descriptor
Envs == {0, 1, 3}
Channels == {1, 2}
AtomCounts == {1, 2}

Configurations == UNION {[1..a -> Envs] : a \in AtomCounts}

RECURSIVE TotalAtoms(_)
TotalAtoms(cs) == IF cs = <<>> THEN 0 ELSE Len(Head(cs)) + TotalAtoms(Tail(cs))

Datasets ==
    {cs \in UNION {[1..c -> Configurations] : c \in 1..MaxRows} :
        TotalAtoms(cs) <= MaxRows}

\* exact arithmetic: the rational num/den in lowest terms, den > 0; 0/0 is
\* the nan and 1/0 the inf that a floating-point division by zero gives
RECURSIVE GCD(_, _)
GCD(a, b) == IF b = 0 THEN a ELSE GCD(b, a % b)

Abs(x) == IF x < 0 THEN -x ELSE x
Sign(x) == IF x < 0 THEN -1 ELSE IF x = 0 THEN 0 ELSE 1

Rat(n, d) ==
    IF d = 0
    THEN [num |-> Sign(n), den |-> 0]
    ELSE LET g == GCD(Abs(n), Abs(d)) IN
         [num |-> Sign(d) * (n \div g), den |-> Abs(d) \div g]

RAdd(a, b) == Rat(a.num * b.den + b.num * a.den, a.den * b.den)
RSub(a, b) == Rat(a.num * b.den - b.num * a.den, a.den * b.den)
RMul(a, b) == Rat(a.num * b.num, a.den * b.den)
RDiv(a, n) == Rat(a.num, a.den * n)

\* elementwise on arrays of one row's length
Zeros(size) == [c \in 1..size |-> Rat(0, 1)]
VAdd(a, b) == [c \in DOMAIN a |-> RAdd(a[c], b[c])]
VSub(a, b) == [c \in DOMAIN a |-> RSub(a[c], b[c])]
VMul(a, b) == [c \in DOMAIN a |-> RMul(a[c], b[c])]
VDiv(a, n) == [c \in DOMAIN a |-> RDiv(a[c], n)]

\* np.sqrt, kept as the root of its argument
Sqrt(a) == [c \in DOMAIN a |-> [sqrt |-> a[c]]]

\* descriptor.generate_generalized_coords: one row of `size` channels per atom
GenerateGeneralizedCoords(conf, size) ==
    [a \in 1..Len(conf) |-> [c \in 1..size |-> Rat(conf[a] * c, 1)]]

\* `for conf in configs: ... for row in zeta`: the rows in visiting order
RECURSIVE Rows(_, _)
Rows(cs, size) ==
    IF cs = <<>> THEN <<>>
    ELSE GenerateGeneralizedCoords(Head(cs), size) \o Rows(Tail(cs), size)

\* the loop body of Welford's method
WelfordUpdateDeltaSquared(acc, row) ==
    LET n == acc.n + 1
        delta == VSub(row, acc.mean)
        mean == VAdd(acc.mean, VDiv(delta, n))
        M2 == VAdd(acc.M2, VMul(delta, delta))
    IN  [n |-> n, mean |-> mean, M2 |-> M2]

WelfordUpdateHalfStep(acc, row) ==
    LET n == acc.n + 1
        delta == VSub(row, acc.mean)
        mean == VAdd(acc.mean, VDiv(delta, 2))
        delta2 == VSub(row, mean)
        M2 == VAdd(acc.M2, VMul(delta, delta2))
    IN  [n |-> n, mean |-> mean, M2 |-> M2]

WelfordUpdate(acc, row) ==
    LET n == acc.n + 1
        delta == VSub(row, acc.mean)
        mean == VAdd(acc.mean, VDiv(delta, n))
        delta2 == VSub(row, mean)
        M2 == VAdd(acc.M2, VMul(delta, delta2))
    IN  [n |-> n, mean |-> mean, M2 |-> M2]

WelfordStart(size) == [n |-> 0, mean |-> Zeros(size), M2 |-> Zeros(size)]

RECURSIVE WelfordLoop(_, _)
WelfordLoop(acc, rows) ==
    IF rows = <<>> THEN acc
    ELSE WelfordLoop(WelfordUpdate(acc, Head(rows)), Tail(rows))

\* std = np.sqrt(M2/(n-1))
WelfordStd(acc) == Sqrt(VDiv(acc.M2, acc.n - 1))

TryWelford == <<"Out of memory while computing mean and standard deviation.",
                "Try the memory-efficient welford method instead.">>

NoStats == [err |-> NoError, msg |-> <<>>, mean |-> <<>>, std |-> <<>>]

\* welford_mean_and_std: configs[0] of an empty list is an IndexError
WelfordMeanAndStd(cs, size) ==
    IF cs = <<>>
    THEN [NoStats EXCEPT !.err = IndexError]
    ELSE LET acc == WelfordLoop(WelfordStart(size), Rows(cs, size)) IN
         [NoStats EXCEPT !.mean = acc.mean, !.std = WelfordStd(acc)]

\* np.mean(stacked, axis=0)
RECURSIVE VSum(_, _)
VSum(rows, size) ==
    IF rows = <<>> THEN Zeros(size) ELSE VAdd(Head(rows), VSum(Tail(rows), size))

Mean(rows, size) == VDiv(VSum(rows, size), Len(rows))

\* the sum of the squared deviations from the mean
RECURSIVE SquaredDeviations(_, _, _)
SquaredDeviations(rows, mean, size) ==
    IF rows = <<>> THEN Zeros(size)
    ELSE LET dev == VSub(Head(rows), mean) IN
         VAdd(VMul(dev, dev), SquaredDeviations(Tail(rows), mean, size))

\* np.std(stacked, axis=0), ddof = 0: the deviations are averaged over n
Std(rows, size) ==
    Sqrt(VDiv(SquaredDeviations(rows, Mean(rows, size), size), Len(rows)))

\* numpy_mean_and_std; oom: memory runs out while it generates or stacks.
\* An empty list has nothing to concatenate, a ValueError.
NumpyMeanAndStdFallBack(cs, size, oom) ==
    IF cs = <<>>
    THEN [NoStats EXCEPT !.err = ValueError]
    ELSE IF oom
    THEN WelfordMeanAndStd(cs, size)
    ELSE [NoStats EXCEPT !.mean = Mean(Rows(cs, size), size),
                         !.std = Std(Rows(cs, size), size)]

NumpyMeanAndStd(cs, size, oom) ==
    IF cs = <<>>
    THEN [NoStats EXCEPT !.err = ValueError]
    ELSE IF oom
    THEN [NoStats EXCEPT !.err = MemoryError, !.msg = TryWelford]
    ELSE [NoStats EXCEPT !.mean = Mean(Rows(cs, size), size),
                         !.std = Std(Rows(cs, size), size)]

\* the two strategies, run on one dataset
InitStats ==
    /\ InitNN
    /\ configs \in Datasets
    /\ numChannels \in Channels
    /\ wf = [k |-> 0] @@ WelfordStart(numChannels)
    /\ welford = <<>>
    /\ batch = <<>>
    /\ stats = <<>>
    /\ dir = NoDir
    /\ call = NoCall

\* one pass of welford_mean_and_std's loop over the next row
WelfordRow ==
    LET rows == Rows(configs, numChannels) IN
    /\ welford = <<>>
    /\ wf.k < Len(rows)
    /\ wf' = [k |-> wf.k + 1] @@ WelfordUpdate([n |-> wf.n, mean |-> wf.mean, M2 |-> wf.M2],
                                               rows[wf.k + 1])
    /\ UNCHANGED <<configs, numChannels, welford, batch, stats, dir, call>>
    /\ UNCHANGED nnVars

\* the loop is over: welford_mean_and_std returns mean and std
WelfordReturn ==
    /\ welford = <<>>
    /\ wf.k = Len(Rows(configs, numChannels))
    /\ welford' = <<[NoStats EXCEPT !.mean = wf.mean, !.std = WelfordStd(wf)]>>
    /\ UNCHANGED <<configs, numChannels, wf, batch, stats, dir, call>>
    /\ UNCHANGED nnVars

NumpyMeanAndStdCall ==
    /\ batch = <<>>
    /\ \E oom \in BOOLEAN :
        batch' = <<NumpyMeanAndStd(configs, numChannels, oom)>>
    /\ UNCHANGED <<configs, numChannels, wf, welford, stats, dir, call>>
    /\ UNCHANGED nnVars

NextStats ==
    \/ WelfordRow
    \/ WelfordReturn
    \/ NumpyMeanAndStdCall

SpecStats == InitStats /\ [][NextStats]_vars

(***************************************************************************)
(* src/openkim_fit/ann.py: the text of a float in the normalization file   *)
(*                                                                         *)
(* A float is sign, significand m and binary exponent e, its value         *)
(* m * 2^e; 0 has m = 0. The text of a float is a decimal in scientific    *)
(* notation, sign, digits and decimal exponent. The 2^53 significands of   *)
(* a binary64 and the 17 digits of '{:24.16e}' cannot be enumerated: the   *)
(* floats here have significands of 3 bits and the text has 2 digits, so   *)
(* that, as 10^16 > 2^53 there, 10^1 > 2^3 here. The format rounds the     *)
(* exact value to the digits kept, float() rounds the decimal to the       *)
(* nearest float, both half to even.                                       *)
(***************************************************************************)

Significands == 4..7
Exponents == -2..1

Zero == [neg |-> FALSE, m |-> 0, e |-> 0]
Floats ==
    {Zero} \cup [neg : BOOLEAN, m : Significands, e : Exponents]

\* 2^(e+2): the value of a float in quarters is m * Quarters(e)
RECURSIVE Quarters(_)
Quarters(e) == IF e = -2 THEN 1 ELSE 2 * Quarters(e - 1)

RoundHalfEven(a, b) ==
    LET fl == a \div b
        r == a % b
    IN  IF 2 * r < b THEN fl
        ELSE IF 2 * r > b THEN fl + 1
        ELSE IF fl % 2 = 0 THEN fl ELSE fl + 1

\* '{:.0e}': one digit kept
FormatFloatOneDigit(x) ==
    LET q == x.m * Quarters(x.e) IN
    IF x.m = 0 THEN [neg |-> x.neg, digits |-> 0, exp |-> 0, point |-> 0]
    ELSE IF RoundHalfEven(q, 4) >= 10
    THEN [neg |-> x.neg, digits |-> RoundHalfEven(q, 40), exp |-> 1, point |-> 0]
    ELSE [neg |-> x.neg, digits |-> RoundHalfEven(q, 4), exp |-> 0, point |-> 0]

\* '{:24.16e}'.format(x): digits are the significant digits, one before the
\* point and `point` after it, exp is the decimal exponent
FormatFloat(x) ==
    LET q == x.m * Quarters(x.e) IN
    IF x.m = 0 THEN [neg |-> x.neg, digits |-> 0, exp |-> 0, point |-> 1]
    ELSE IF RoundHalfEven(10 * q, 4) >= 100
    THEN [neg |-> x.neg, digits |-> RoundHalfEven(q, 4), exp |-> 1, point |-> 1]
    ELSE [neg |-> x.neg, digits |-> RoundHalfEven(10 * q, 4), exp |-> 0, point |-> 1]

\* the value of a decimal, in 20ths of a quarter
Decimal(t) ==
    t.digits * (IF t.exp = 1 THEN 10 ELSE 1) * (IF t.point = 1 THEN 8 ELSE 80)

Distance(f, t) == Abs(20 * f.m * Quarters(f.e) - Decimal(t))

\* float(line): the float nearest to the decimal
ParseFloat(t) ==
    IF t.digits = 0 THEN Zero
    ELSE CHOOSE f \in Floats :
            /\ f.m # 0
            /\ f.neg = t.neg
            /\ \A g \in Floats :
                (g.m # 0 /\ g.neg = t.neg /\ g # f)
                    => \/ Distance(f, t) < Distance(g, t)
                       \/ Distance(f, t) = Distance(g, t) /\ f.m % 2 = 0

\* a float of the kind above, not an exact value
IsFloat(x) == DOMAIN x = {"neg", "m", "e"}
IsDecimal(t) == DOMAIN t = {"neg", "digits", "exp", "point"}

\* The statistics of the conversions are exact values, not floats: the text
\* of one is kept as the value it denotes.
Format(x) == IF IsFloat(x) THEN FormatFloat(x) ELSE x

(***************************************************************************)
(* src/openkim_fit/ann.py: the normalization file and the tfrecords files  *)
(***************************************************************************)

\* A line of mean_and_std_for_kim_ann is its text before any '#', stripped,
\* (no token or one) and the comment after the '#' (none or one). A token is
\* what int() and float() can tell apart: an integer literal, the text of a
\* float, or a word.
IntToken(n) == [kind |-> "int", int |-> n, float |-> <<>>]
FloatToken(t) == [kind |-> "float", int |-> 0, float |-> <<t>>]
WordToken == [kind |-> "word", int |-> 0, float |-> <<>>]

CommentLine(c) == [text |-> <<>>, comment |-> <<c>>]
BlankLine == [text |-> <<>>, comment |-> <<>>]
FalseLine == [text |-> <<WordToken>>, comment |-> <<>>]

\* the lines written when the data is normalized
WriteMeanAndStd(mean, std) ==
    <<[text |-> <<IntToken(Len(mean))>>, comment |-> <<"number of descriptors.">>]>>
    \o <<CommentLine("mean")>>
    \o [i \in 1..Len(mean) |-> [text |-> <<FloatToken(Format(mean[i]))>>, comment |-> <<>>]]
    \o <<CommentLine("standard derivation")>>
    \o [i \in 1..Len(std) |-> [text |-> <<FloatToken(Format(std[i]))>>, comment |-> <<>>]]

\* the lines written when it is not
WriteFalse == <<FalseLine>>

Min(a, b) == IF a < b THEN a ELSE b

NotRead == [err |-> NoError, size |-> -1, mean |-> <<>>, std |-> <<>>]

\* float(line): <<x>>, or <<>> when it raises; an integer literal is a float
\* too
Float(tok) ==
    IF tok.kind = "float"
    THEN IF IsDecimal(tok.float[1]) THEN <<ParseFloat(tok.float[1])>> ELSE tok.float
    ELSE IF tok.kind = "int" THEN <<Rat(tok.int, 1)>>
    ELSE <<>>

\* the reading loop of convert_raw_to_tfrecords_testset: what is left of each
\* line, the empty ones skipped; the first is int(line), the others
\* float(line); size -1 is None
ReadMeanAndStd(lines) ==
    LET kept == SelectSeq(lines, LAMBDA l : l.text # <<>>)
        toks == [i \in 1..Len(kept) |-> kept[i].text[1]]
        data == [i \in 1..(Len(toks) - 1) |-> Float(toks[i + 1])]
    IN  IF toks = <<>>
        THEN NotRead
        ELSE IF toks[1].kind # "int" \/ \E i \in 1..Len(data) : data[i] = <<>>
        THEN [NotRead EXCEPT !.err = ValueError]
        ELSE LET size == toks[1].int
                 cut == Min(size, Len(data))
             IN  [err |-> NoError,
                  size |-> size,
                  mean |-> [i \in 1..cut |-> data[i][1]],
                  std |-> [i \in 1..(Len(data) - cut) |-> data[cut + i][1]]]

\* the features of a record
Features ==
    {"num_atoms", "num_descriptors", "atomic_coords", "gen_coords",
     "dgen_datomic_coords", "energy", "forces"}

\* (zeta - mean) / std when do_normalize, zeta as generated otherwise
Normalize(zeta, do_normalize, mean, std) ==
    [zeta |-> zeta,
     by |-> IF do_normalize THEN <<[mean |-> mean, std |-> std]>> ELSE <<>>]

\* write_tfrecords: the record of configuration id, with its name
WriteTfrecords(id, conf, size, do_normalize, mean, std) ==
    [features |-> Features \cup {"name"},
     name |-> <<id>>,
     num_atoms |-> Len(conf),
     num_descriptors |-> size,
     gen_coords |-> Normalize(GenerateGeneralizedCoords(conf, size),
                              do_normalize, mean, std)]

\* the record convert_to_tfrecords builds itself, without a name
WriteExample(id, conf, size, do_normalize, mean, std) ==
    [features |-> Features,
     name |-> <<>>,
     num_atoms |-> Len(conf),
     num_descriptors |-> size,
     gen_coords |-> Normalize(GenerateGeneralizedCoords(conf, size),
                              do_normalize, mean, std)]

\* the features _parse_function asks of a record, none with a default
ParseFeatures ==
    {"num_descriptors", "name", "num_atoms", "atomic_coords", "gen_coords",
     "dgen_datomic_coords", "energy", "forces"}

InvalidArgumentError == "InvalidArgumentError"

\* _parse_function: tf.parse_single_example fails on a record that lacks a
\* feature asked for; otherwise name and num_atoms are handed on
ParseFunction(record) ==
    IF ParseFeatures \subseteq record.features
    THEN [err |-> NoError, name |-> record.name, num_atoms |-> record.num_atoms]
    ELSE [err |-> InvalidArgumentError, name |-> <<>>, num_atoms |-> 0]

\* configs[indices]
Take(cs, indices) == [i \in 1..Len(indices) |-> cs[indices[i]]]

\* np.arange(size_dataset), and what np.random.shuffle can make of it
Arange(n) == [i \in 1..n |-> i]
Shuffles(n) == {p \in [1..n -> 1..n] : \A i, j \in 1..n : p[i] = p[j] => i = j}

\* the training and the validation indices
SplitAllTrain(indices, size_validation) ==
    [tr |-> indices,
     va |-> SubSeq(indices, Len(indices) - size_validation + 1, Len(indices))]

Split(indices, size_validation) ==
    IF size_validation # 0
    THEN LET size_train == Len(indices) - size_validation IN
         [tr |-> SubSeq(indices, 1, size_train),
          va |-> SubSeq(indices, size_train + 1, Len(indices))]
    ELSE [tr |-> indices, va |-> <<>>]

TrainName == "train.tfrecords"
ValidationName == "validation.tfrecords"
TestName == "test.tfrecords"
NormName == "mean_and_std_for_kim_ann"
DataName == "data.tfrecords"

Returned(d) == [dir |-> d, err |-> NoError, msg |-> <<>>, stats |-> <<>>, written |-> {}]

\* convert_raw_to_tfrecords on directory d; indices is np.arange, shuffled
\* when do_shuffle
ConvertRawToTfrecordsResult(d, cs, size, size_validation, do_generate, do_normalize, indices, use_welford, oom) ==
    LET sp == Split(indices, size_validation)
        made == [d EXCEPT !.exists = TRUE]
        st == IF ~do_normalize THEN NoStats
              ELSE IF use_welford THEN WelfordMeanAndStd(Take(cs, sp.tr), size)
              ELSE NumpyMeanAndStd(Take(cs, sp.tr), size, oom)
        record(i) == WriteTfrecords(i, cs[i], size, do_normalize, st.mean, st.std)
        records(ix) == [k \in 1..Len(ix) |-> record(ix[k])]
    IN  IF size_validation > Len(cs)
        THEN [Returned(d) EXCEPT !.err = ValueError]
        ELSE IF ~(do_generate \/ d.train = <<>>)
        THEN Returned(d)
        ELSE IF st.err # NoError
        THEN [Returned(made) EXCEPT !.err = st.err, !.msg = st.msg]
        ELSE [dir |-> [made EXCEPT
                        !.norm = IF do_normalize
                                 THEN <<WriteMeanAndStd(st.mean, st.std)>>
                                 ELSE <<WriteFalse>>,
                        !.train = <<records(sp.tr)>>,
                        !.validation = IF sp.va # <<>> THEN <<records(sp.va)>> ELSE @],
              err |-> NoError,
              msg |-> <<>>,
              stats |-> IF do_normalize THEN <<[mean |-> st.mean, std |-> st.std]>>
                        ELSE <<>>,
              written |-> {NormName, TrainName}
                            \cup (IF sp.va # <<>> THEN {ValidationName} ELSE {})]

\* convert_to_tfrecords on directory d, name 'data': the writer is opened
\* first, the statistics are Welford's over all the configurations
ConvertToTfrecordsResult(d, cs, size, do_generate, do_normalize) ==
    LET made == [d EXCEPT !.exists = TRUE, !.named = << <<>> >>]
        acc == WelfordLoop(WelfordStart(size), Rows(cs, size))
        mean == acc.mean
        std == WelfordStd(acc)
        records == [i \in 1..Len(cs) |->
                      WriteExample(i, cs[i], size, do_normalize, mean, std)]
    IN  IF ~(do_generate \/ d.named = <<>>)
        THEN Returned(d)
        ELSE IF do_normalize /\ cs = <<>>
        THEN [Returned(made) EXCEPT !.err = IndexError, !.written = {DataName}]
        ELSE [dir |-> [made EXCEPT
                        !.norm = IF do_normalize
                                 THEN <<WriteMeanAndStd(mean, std)>>
                                 ELSE <<WriteFalse>>,
                        !.named = <<records>>],
              err |-> NoError,
              msg |-> <<>>,
              stats |-> IF do_normalize THEN <<[mean |-> mean, std |-> std]>>
                        ELSE <<>>,
              written |-> {NormName, DataName}]

\* the message of the mismatch: the expected count, the count read
WrongSizeSwapped(expected, found) == <<"Expected number of descriptors is", found,
                                       "while it is", expected>>

WrongSize(expected, found) == <<"Expected number of descriptors is", expected,
                                "while it is", found>>

\* convert_raw_to_tfrecords_testset on directory d; order is the order of
\* te_configs, shuffled when do_shuffle
ConvertRawToTfrecordsTestsetResult(d, cs, size, do_generate, do_normalize, order) ==
    LET made == [d EXCEPT !.exists = TRUE]
        rd == IF do_normalize /\ d.norm # <<>>
              THEN ReadMeanAndStd(d.norm[1])
              ELSE NotRead
        records == [k \in 1..Len(order) |->
                      WriteTfrecords(order[k], cs[order[k]], size, do_normalize,
                                     rd.mean, rd.std)]
    IN  IF ~(do_generate \/ d.test = <<>>)
        THEN Returned(d)
        ELSE IF do_normalize /\ d.norm = <<>>
        THEN [Returned(made) EXCEPT !.err = IOError]
        ELSE IF rd.err # NoError
        THEN [Returned(made) EXCEPT !.err = rd.err]
        ELSE IF do_normalize /\ rd.size # size
        THEN [Returned(made) EXCEPT !.err = SizeMismatch,
                                    !.msg = WrongSize(size, rd.size)]
        ELSE [dir |-> [made EXCEPT !.test = <<records>>],
              err |-> NoError,
              msg |-> <<>>,
              stats |-> IF do_normalize THEN <<[mean |-> rd.mean, std |-> rd.std]>>
                        ELSE <<>>,
              written |-> {TestName}]

\* bound of the conversion calls made on one directory
MaxCalls == 2

\* the datasets the conversions are run on
ConvertSamples == {<< <<0>>, <<1>> >>, << <<0, 3>>, <<1>> >>}

InitConvert ==
    /\ InitNN
    /\ configs \in ConvertSamples
    /\ numChannels \in Channels
    /\ wf = [k |-> 0] @@ WelfordStart(numChannels)
    /\ welford = <<>>
    /\ batch = <<>>
    /\ stats = <<>>
    /\ dir = NoDir
    /\ call = NoCall

ConvertRawToTfrecords ==
    /\ call.n < MaxCalls
    /\ \E size_validation \in 0..(Len(configs) + 1) :
        \E do_generate, do_normalize, do_shuffle, use_welford, oom \in BOOLEAN :
        \E indices \in (IF do_shuffle THEN Shuffles(Len(configs))
                        ELSE {Arange(Len(configs))}) :
            LET r == ConvertRawToTfrecordsResult(dir, configs, numChannels,
                        size_validation, do_generate, do_normalize, indices,
                        use_welford, oom)
                sp == Split(indices, size_validation)
                ran == r.dir.exists /\ (do_generate \/ dir.train = <<>>)
                         /\ size_validation <= Len(configs)
                done == ran /\ r.err = NoError
            IN  /\ dir' = r.dir
                /\ stats' = r.stats
                /\ call' = [op |-> "convert_raw_to_tfrecords", n |-> call.n + 1,
                            size |-> numChannels,
                            err |-> r.err, msg |-> r.msg, written |-> r.written,
                            ran |-> ran,
                            do_normalize |-> ran /\ do_normalize,
                            use_welford |-> ran /\ do_normalize /\ use_welford,
                            oom |-> ran /\ do_normalize /\ ~use_welford
                                      /\ sp.tr # <<>> /\ oom,
                            tr |-> IF done THEN sp.tr ELSE <<>>,
                            va |-> IF done THEN sp.va ELSE <<>>]
                /\ UNCHANGED <<configs, numChannels, wf, welford, batch>>
                /\ UNCHANGED nnVars

ConvertToTfrecords ==
    /\ call.n < MaxCalls
    /\ \E do_generate, do_normalize \in BOOLEAN :
            LET r == ConvertToTfrecordsResult(dir, configs, numChannels,
                                              do_generate, do_normalize)
            IN  /\ dir' = r.dir
                /\ stats' = r.stats
                /\ call' = [NoCall EXCEPT !.op = "convert_to_tfrecords",
                                !.n = call.n + 1, !.size = numChannels,
                                !.err = r.err, !.msg = r.msg, !.written = r.written,
                                !.ran = do_generate \/ dir.named = <<>>,
                                !.do_normalize = do_normalize
                                        /\ (do_generate \/ dir.named = <<>>)]
                /\ UNCHANGED <<configs, numChannels, wf, welford, batch>>
                /\ UNCHANGED nnVars

\* the test set is the dataset again; its descriptor can be another one
ConvertRawToTfrecordsTestset ==
    /\ call.n < MaxCalls
    /\ \E size \in Channels :
        \E do_generate, do_normalize, do_shuffle \in BOOLEAN :
        \E order \in (IF do_shuffle THEN Shuffles(Len(configs))
                      ELSE {Arange(Len(configs))}) :
            LET r == ConvertRawToTfrecordsTestsetResult(dir, configs, size,
                                                        do_generate, do_normalize, order)
            IN  /\ dir' = r.dir
                /\ stats' = r.stats
                /\ call' = [NoCall EXCEPT !.op = "convert_raw_to_tfrecords_testset",
                                !.n = call.n + 1, !.size = size,
                                !.err = r.err, !.msg = r.msg, !.written = r.written,
                                !.ran = do_generate \/ dir.test = <<>>,
                                !.do_normalize = do_normalize]
                /\ UNCHANGED <<configs, numChannels, wf, welford, batch>>
                /\ UNCHANGED nnVars

NextConvert ==
    \/ ConvertRawToTfrecords
    \/ ConvertToTfrecords
    \/ ConvertRawToTfrecordsTestset

SpecConvert == InitConvert /\ [][NextConvert]_vars

(***************************************************************************)
(* src/openkim_fit/ann.py: writing and reading floats                      *)
(***************************************************************************)

\* the entries of the vectors written
NormFloats ==
    {Zero,
     [neg |-> FALSE, m |-> 5, e |-> -2],
     [neg |-> TRUE, m |-> 7, e |-> -1],
     [neg |-> FALSE, m |-> 7, e |-> -2],
     [neg |-> FALSE, m |-> 6, e |-> 1]}

InitNorm ==
    /\ InitNN
    /\ configs = <<>>
    /\ numChannels \in Channels
    /\ wf = [k |-> 0] @@ WelfordStart(numChannels)
    /\ welford = <<>>
    /\ batch = <<>>
    /\ stats \in {<<[mean |-> mean, std |-> std]>> :
                    mean \in [1..numChannels -> NormFloats],
                    std \in [1..numChannels -> NormFloats]}
    /\ dir = NoDir
    /\ call = NoCall

\* the mean and std are written to mean_and_std_for_kim_ann
WriteNormalization ==
    /\ dir.norm = <<>>
    /\ dir' = [dir EXCEPT !.exists = TRUE,
                          !.norm = <<WriteMeanAndStd(stats[1].mean, stats[1].std)>>]
    /\ UNCHANGED <<configs, numChannels, wf, welford, batch, stats, call>>
    /\ UNCHANGED nnVars

InsertAt(lines, pos, line) ==
    SubSeq(lines, 1, pos) \o <<line>> \o SubSeq(lines, pos + 1, Len(lines))

\* a blank or a comment-only line comes into the file as written, anywhere
EditNormalization ==
    /\ dir.norm # <<>>
    /\ call.op = "none"
    /\ dir.norm[1] = WriteMeanAndStd(stats[1].mean, stats[1].std)
    /\ \E pos \in 0..Len(dir.norm[1]) :
       \E line \in {BlankLine, CommentLine("note")} :
            dir' = [dir EXCEPT !.norm = <<InsertAt(dir.norm[1], pos, line)>>]
    /\ UNCHANGED <<configs, numChannels, wf, welford, batch, stats, call>>
    /\ UNCHANGED nnVars

\* the file is read as convert_raw_to_tfrecords_testset reads it
ReadNormalization ==
    /\ dir.norm # <<>>
    /\ call.op = "none"
    /\ call' = [op |-> "read_mean_and_std",
                read |-> ReadMeanAndStd(dir.norm[1])] @@ NoCall
    /\ UNCHANGED <<configs, numChannels, wf, welford, batch, stats, dir>>
    /\ UNCHANGED nnVars

NextNorm ==
    \/ WriteNormalization
    \/ EditNormalization
    \/ ReadNormalization

SpecNorm == InitNorm /\ [][NextNorm]_vars
\* ------------------------------------------------------------------ claims
IsLinear(la) == la.kind = "Linear"
IsActivation(la) == la.kind \in ActivLayer
IsDropout(la) == la.kind = "Dropout"

\* the positions of the linear layers of a stack, in stack order
LinearPositions(ls) ==
    SelectSeq([i \in 1..Len(ls) |-> i], LAMBDA i : IsLinear(ls[i]))

\* a stack that breaks one of the three adjacency rules
BreaksAdjacency(ls) ==
    \E i \in 1..Len(ls) :
        \/ IsActivation(ls[i]) /\ (i = 1 \/ ~IsLinear(ls[i - 1]))
        \/ IsDropout(ls[i]) /\ i > 1 /\ ~IsActivation(ls[i - 1])
        \/ IsLinear(ls[i]) /\ i > 1 /\ IsLinear(ls[i - 1])

\* (linear, activation[, dropout])* followed by one final linear layer, the
\* first linear layer as wide as the descriptor and the last of output width 1
WellFormedBody(s, size) ==
    /\ Len(s) >= 1
    /\ IsLinear(s[1]) /\ s[1].in_features = size
    /\ IsLinear(s[Len(s)]) /\ s[Len(s)].out_features = 1
    /\ \A i \in 1..Len(s) :
        /\ IsLinear(s[i]) \/ IsActivation(s[i]) \/ IsDropout(s[i])
        /\ IsLinear(s[i]) /\ i < Len(s) => IsActivation(s[i + 1])
        /\ IsActivation(s[i]) => i > 1 /\ IsLinear(s[i - 1])
        /\ IsDropout(s[i]) =>
            i > 1 /\ IsActivation(s[i - 1]) /\ i < Len(s) /\ IsLinear(s[i + 1])

Exported == lastOp = "write_kim_model" /\ lastErr = NoError
NNFile == files.nn[1]
DropoutFile == files.dropout[1]

\* C1: an export of a model that add_layers accepted and whose stack breaks an
\* adjacency rule raises, and when it raises it has opened none of the four
\* files for writing.
C1_NoFileOnStructuralError ==
    (lastOp = "write_kim_model" /\ accepted /\ BreaksAdjacency(layers))
        => (lastErr # NoError /\ lastWritten = {})

\* C2: an export of a model that add_layers accepted and whose stack breaks an
\* adjacency rule (activation not after a linear layer, dropout not after an
\* activation, linear right after linear) ends with NeuralNetworkError.
C2_AdjacencyRejected ==
    (lastOp = "write_kim_model" /\ accepted /\ BreaksAdjacency(layers))
        => lastErr = NeuralNetworkError

\* C3: once add_layers has returned normally, every further add_layers call
\* raises NeuralNetworkError and leaves the layer sequence as it was.
C3_LockedRejects ==
    [][(accepted /\ lastOp' = "add_layers")
        => (lastErr' = NeuralNetworkError /\ layers' = layers /\ hasLayers')]_vars

C3_Witness ==
    /\ accepted
    /\ lastOp = "add_layers"
    /\ lastErr = NeuralNetworkError
    /\ Len(layers) >= 3

\* C4: add_layers on a stack whose first linear layer (the first layer, or the
\* second after an input dropout) is not as wide as the descriptor raises
\* NeuralNetworkError.
C4_FirstWidthChecked ==
    (/\ lastOp = "add_layers"
     /\ hasLayers
     /\ \/ /\ Len(layers) >= 1
           /\ IsLinear(layers[1])
           /\ layers[1].in_features # descSize
        \/ /\ Len(layers) >= 2
           /\ IsDropout(layers[1])
           /\ IsLinear(layers[2])
           /\ layers[2].in_features # descSize)
        => lastErr = NeuralNetworkError

\* C5: add_layers returns normally only when the last layer is a linear layer
\* of output width 1, and on a non-empty stack that passes the first-layer
\* check and ends otherwise it raises NeuralNetworkError.
C5_LastLayerChecked ==
    (lastOp = "add_layers" /\ hasLayers)
        => /\ lastErr = NoError
              => /\ Len(layers) >= 1
                 /\ IsLinear(layers[Len(layers)])
                 /\ layers[Len(layers)].out_features = 1
           /\ (/\ Len(layers) >= 1
               /\ IsLinear(layers[1])
               /\ layers[1].in_features = descSize
               /\ ~(/\ IsLinear(layers[Len(layers)])
                    /\ layers[Len(layers)].out_features = 1))
              => lastErr = NeuralNetworkError

\* C6: a stack made of an input dropout and a well-formed body is accepted by
\* add_layers and by export, and the first keep probability written is 1 - p
\* of the input dropout.
C6_InputDropoutAccepted ==
    (/\ hasLayers
     /\ Len(layers) >= 2
     /\ IsDropout(layers[1])
     /\ WellFormedBody(Tail(layers), descSize))
        => /\ accepted
           /\ lastOp = "write_kim_model"
              => /\ lastErr = NoError
                 /\ NNFile.keep_prob[1] = 100 - layers[1].p

\* C7: when the grouping pass returns on an accepted model, the groups
\* concatenated are the layer sequence, every group between the first and the
\* last is (linear, activation) or (linear, activation, dropout), and the last
\* group is one linear layer of output width 1.
C7_GroupShape ==
    LET gl == GroupLayers(hasLayers, layers)
        g == gl.groups
    IN  (accepted /\ lastOp = "write_kim_model" /\ gl.err = NoError)
            => /\ Flatten(g) = [i \in 1..Len(layers) |-> i]
               /\ \A i \in 2..(Len(g) - 1) :
                    /\ Len(g[i]) \in {2, 3}
                    /\ IsLinear(layers[g[i][1]])
                    /\ IsActivation(layers[g[i][2]])
                    /\ Len(g[i]) = 3 => IsDropout(layers[g[i][3]])
               /\ Len(g[Len(g)]) = 1
               /\ IsLinear(layers[g[Len(g)][1]])
               /\ layers[g[Len(g)][1]].out_features = 1

\* the keep probability of the e-th linear layer's input: 1 - p of the dropout
\* right before that layer, 1 without one
ExpectedKeep(ls, e) ==
    LET at == LinearPositions(ls)[e]
    IN  IF at > 1 /\ IsDropout(ls[at - 1]) THEN 100 - ls[at - 1].p ELSE 100

\* C8: after a successful export the keep-probability line has one entry per
\* linear layer, as many as the layer count written, and entry e is 1 - p of
\* the dropout feeding linear layer e (the input dropout for the first, the
\* dropout closing the hidden group before it for the others), 1 without one.
C8_KeepProbPerLayer ==
    Exported
        => /\ Len(NNFile.keep_prob) = Len(LinearPositions(layers))
           /\ Len(NNFile.keep_prob) = NNFile.num_layers
           /\ \A e \in 1..Len(NNFile.keep_prob) :
                NNFile.keep_prob[e] = ExpectedKeep(layers, e)

C8_Witness ==
    /\ accepted
    /\ Exported
    /\ NNFile.num_layers = 2
    /\ NNFile.keep_prob = <<100, 80>>

\* C9: after a successful export of an accepted stack with L linear layers the
\* file states layer count L, holds L weight blocks and L bias blocks that are
\* those of the linear layers in stack order, and the size line lists their
\* output widths in stack order and ends in 1.
C9_BlocksPerLinearLayer ==
    (accepted /\ Exported)
        => LET at == LinearPositions(layers)
               L == Len(at)
           IN  /\ NNFile.complete
               /\ NNFile.num_layers = L
               /\ Len(NNFile.blocks) = L
               /\ \A j \in 1..L :
                    /\ NNFile.blocks[j].weight[1][1][1] = at[j]
                    /\ NNFile.blocks[j].bias[1][1] = at[j]
                    /\ Len(NNFile.blocks[j].bias) = layers[at[j]].out_features
               /\ NNFile.sizes = [j \in 1..L |-> layers[at[j]].out_features]
               /\ NNFile.sizes[L] = 1

C9_Witness ==
    /\ accepted
    /\ Exported
    /\ NNFile.num_layers = 2
    /\ NNFile.sizes = <<NumDesc, 1>>
    /\ Len(layers) = 3
    /\ layers[3].in_features = NumDesc

ZeroOne(row) == \A j \in 1..Len(row) : row[j] \in {0, 1}
AllOnes(row) == \A j \in 1..Len(row) : row[j] = 1

\* C10 as stated, for a model that add_layers accepted: every instance of the
\* mask file has one row per linear layer, row i as long as linear layer i's
\* input width, all entries 0 or 1, and a row of 1s where the keep probability
\* is 1.
C10_RowPerInputWidth ==
    (accepted /\ Exported)
        => LET at == LinearPositions(layers)
           IN  \A rep \in 1..Len(DropoutFile.instances) :
                 LET rows == DropoutFile.instances[rep]
                 IN  /\ Len(rows) = Len(at)
                     /\ \A i \in 1..Len(rows) :
                          /\ Len(rows[i]) = layers[at[i]].in_features
                          /\ ZeroOne(rows[i])
                          /\ NNFile.keep_prob[i] = 100 => AllOnes(rows[i])

\* C10 amended: row 1 is as long as the descriptor has channels and row i > 1
\* as long as the output width of linear layer i - 1; the rest as stated.
C10_RowPerUnitCount ==
    Exported
        => LET at == LinearPositions(layers)
           IN  /\ Len(DropoutFile.instances) = DropoutFile.repeat
               /\ \A rep \in 1..Len(DropoutFile.instances) :
                    LET rows == DropoutFile.instances[rep]
                    IN  /\ Len(rows) = Len(at)
                        /\ \A i \in 1..Len(rows) :
                             /\ Len(rows[i]) =
                                  IF i = 1 THEN descSize
                                  ELSE layers[at[i - 1]].out_features
                             /\ ZeroOne(rows[i])
                             /\ NNFile.keep_prob[i] = 100 => AllOnes(rows[i])

C10_Witness ==
    /\ accepted
    /\ Exported
    /\ \E i \in 1..Len(NNFile.keep_prob) :
        /\ NNFile.keep_prob[i] = 80
        /\ \E rep \in 1..DropoutFile.repeat :
            \E j \in 1..Len(DropoutFile.instances[rep][i]) :
                DropoutFile.instances[rep][i][j] = 0
        /\ \E rep \in 1..DropoutFile.repeat :
            \E j \in 1..Len(DropoutFile.instances[rep][i]) :
                DropoutFile.instances[rep][i][j] = 1
    /\ \E i \in 1..Len(NNFile.keep_prob) : NNFile.keep_prob[i] = 100

\* C11: an export leaves the model as it was: the layer sequence, and with it
\* every layer's weights, biases and dropout rate, is the same after
\* write_kim_model as before, and an export that follows a successful export
\* of the same model into the same directory succeeds too and writes the same
\* network-parameter file.
C11_ExportLeavesModel ==
    [][(lastOp' = "write_kim_model")
        => /\ hasLayers' = hasLayers
           /\ layers' = layers
           /\ accepted' = accepted
           /\ \A k \in 1..Len(layers) :
                IsLinear(layers[k])
                    => /\ Weight(layers', k) = Weight(layers, k)
                       /\ Bias(layers', k) = Bias(layers, k)
           /\ Exported => /\ lastErr' = NoError
                          /\ files'.nn = files.nn
                          /\ files'.desc = files.desc
                          /\ files'.cmake = files.cmake]_vars

\* a locked model was exported with dropout masks on disk: the export that
\* follows is the second one into this directory
C11_Witness ==
    /\ accepted
    /\ Exported
    /\ dirExists
    /\ Len(LinearPositions(layers)) = 2
    /\ files.dropout # <<>>
    /\ ENABLED WriteKimModel

\* C12: for a linear layer of input width I and output width O the exported
\* weight block has I rows of O entries, entry (r, c) being the stored weight
\* of output unit c and input unit r, and the bias block has the O biases in
\* stored order.
C12_WeightBlockTransposed ==
    (accepted /\ Exported)
        => LET at == LinearPositions(layers) IN
           \A j \in 1..Len(at) :
                LET I == layers[at[j]].in_features
                    O == layers[at[j]].out_features
                    b == NNFile.blocks[j]
                IN  /\ b.rows = I
                    /\ b.cols = O
                    /\ Len(b.weight) = I
                    /\ \A r \in 1..I :
                         /\ Len(b.weight[r]) = O
                         /\ \A c \in 1..O : b.weight[r][c] = <<at[j], c, r>>
                    /\ Len(b.bias) = O
                    /\ \A o \in 1..O : b.bias[o] = <<at[j], o>>

\* an exported block that is not square: NumDesc inputs, one output
C12_Witness ==
    /\ accepted
    /\ Exported
    /\ \E j \in 1..Len(NNFile.blocks) :
         /\ NNFile.blocks[j].rows = NumDesc
         /\ NNFile.blocks[j].cols = 1
         /\ Len(NNFile.blocks[j].weight) = NumDesc
         /\ NumDesc > 1

\* the rows the Welford loop has been through, all the rows
RowsDone == SubSeq(Rows(configs, numChannels), 1, wf.k)
AllRows == Rows(configs, numChannels)

\* C13: on one dataset of two or more rows welford_mean_and_std and
\* numpy_mean_and_std return the same mean and the same standard deviation.
C13_StrategiesAgree ==
    (/\ welford # <<>>
     /\ batch # <<>>
     /\ batch[1].err = NoError
     /\ Len(AllRows) >= 2)
        => /\ welford[1].mean = batch[1].mean
           /\ welford[1].std = batch[1].std

\* C14: after k >= 1 rows the Welford loop has n = k, mean the arithmetic
\* mean of these k rows and M2 the sum of their squared deviations from that
\* mean; the standard deviation returned is the root of M2/(n-1) over all rows.
C14_WelfordInvariant ==
    /\ wf.k >= 1
        => /\ wf.n = wf.k
           /\ wf.mean = Mean(RowsDone, numChannels)
           /\ wf.M2 = SquaredDeviations(RowsDone, wf.mean, numChannels)
    /\ welford # <<>>
        => /\ wf.k = Len(AllRows)
           /\ welford[1].mean = Mean(AllRows, numChannels)
           /\ welford[1].std =
                Sqrt(VDiv(SquaredDeviations(AllRows, Mean(AllRows, numChannels),
                                            numChannels),
                          Len(AllRows) - 1))
           /\ welford[1] = WelfordMeanAndStd(configs, numChannels)

\* three rows with different values are done, the mean is no integer
C14_Witness ==
    /\ wf.k = 3
    /\ welford # <<>>
    /\ wf.mean[1].den = 3
    /\ wf.M2[1].num > 0
    /\ AllRows[1] # AllRows[2]

\* the orders in which the rows can be visited
Orders(n) == {p \in [1..n -> 1..n] : \A i, j \in 1..n : p[i] = p[j] => i = j}

\* C15: the n, mean and M2 the Welford loop ends with are the same for every
\* order of the rows.
C15_OrderIndependent ==
    (wf.k = Len(AllRows))
        => \A p \in Orders(Len(AllRows)) :
             WelfordLoop(WelfordStart(numChannels),
                         [i \in 1..Len(AllRows) |-> AllRows[p[i]]])
                = [n |-> wf.n, mean |-> wf.mean, M2 |-> wf.M2]

\* the loop ended on three rows that are not all the same
C15_Witness ==
    /\ wf.k = Len(AllRows)
    /\ wf.k >= 3
    /\ AllRows[1] # AllRows[2]
    /\ AllRows[2] # AllRows[3]
    /\ AllRows[1] # AllRows[3]

Range(seq) == {seq[i] : i \in 1..Len(seq)}

ByOf(file) == {file[1][k].gen_coords.by : k \in 1..Len(file[1])}
NamesOf(file) == [k \in 1..Len(file[1]) |-> file[1][k].name]

\* C16: a convert_raw_to_tfrecords that normalizes computes mean and std from
\* the training configurations only; the training and the validation indices
\* are disjoint and together the dataset; every training and every validation
\* record is normalized with that one pair, and the normalization file holds
\* that pair.
C16_TrainingStatistics ==
    (/\ call.op = "convert_raw_to_tfrecords"
     /\ call.ran
     /\ call.err = NoError
     /\ call.do_normalize)
        => LET rows == Rows(Take(configs, call.tr), numChannels)
               mean == Mean(rows, numChannels)
               dev == SquaredDeviations(rows, mean, numChannels)
               std == Sqrt(VDiv(dev, IF call.use_welford THEN Len(rows) - 1
                                     ELSE Len(rows)))
               pair == [mean |-> mean, std |-> std]
               rd == ReadMeanAndStd(dir.norm[1])
           IN  /\ Range(call.tr) \cap Range(call.va) = {}
               /\ Range(call.tr) \cup Range(call.va) = 1..Len(configs)
               /\ Len(call.tr) + Len(call.va) = Len(configs)
               /\ stats = <<pair>>
               /\ NamesOf(dir.train) = [k \in 1..Len(call.tr) |-> <<call.tr[k]>>]
               /\ ByOf(dir.train) = {<<pair>>}
               /\ call.va # <<>>
                    => /\ NamesOf(dir.validation)
                            = [k \in 1..Len(call.va) |-> <<call.va[k]>>]
                       /\ ByOf(dir.validation) = {<<pair>>}
               /\ rd.err = NoError
               /\ rd.size = numChannels
               /\ rd.mean = mean
               /\ rd.std = std

\* a split in two, whose training statistics are not those of the dataset
C16_Witness ==
    /\ call.op = "convert_raw_to_tfrecords"
    /\ call.ran
    /\ call.err = NoError
    /\ call.do_normalize
    /\ call.tr # <<>>
    /\ call.va # <<>>
    /\ dir.validation # <<>>
    /\ stats[1].mean # Mean(Rows(configs, numChannels), numChannels)

TfrecordsFiles == {dir.train, dir.validation, dir.test, dir.named}

\* C17: after any conversion calls on one directory the normalization file
\* states the normalization of every tfrecords file there: False exactly when
\* the records are as generated, otherwise the count, mean and std they were
\* normalized with.
C17_FileStatesNormalization ==
    \A file \in TfrecordsFiles :
        (file # <<>> /\ file[1] # <<>>)
            => /\ dir.norm # <<>>
               /\ LET rd == ReadMeanAndStd(dir.norm[1]) IN
                  \A by \in ByOf(file) :
                      IF by = <<>>
                      THEN dir.norm[1] = WriteFalse
                      ELSE /\ rd.err = NoError
                           /\ rd.size = Len(by[1].mean)
                           /\ rd.mean = by[1].mean
                           /\ rd.std = by[1].std

\* the call made is convert_raw_to_tfrecords_testset with do_normalize, on a
\* directory without normalization file or with one of another count
TestsetOnBadFile ==
    /\ call'.op = "convert_raw_to_tfrecords_testset"
    /\ call'.n = call.n + 1
    /\ call'.do_normalize
    /\ \/ dir.norm = <<>>
       \/ /\ dir.norm # <<>>
          /\ ReadMeanAndStd(dir.norm[1]).err = NoError
          /\ ReadMeanAndStd(dir.norm[1]).size # call'.size

TestsetFailed ==
    /\ call'.err # NoError
    /\ call'.written = {}
    /\ dir'.test = dir.test
    /\ dir.norm # <<>>
        => /\ call'.err = SizeMismatch
           /\ call'.msg[2] = call'.size
           /\ call'.msg[4] = ReadMeanAndStd(dir.norm[1]).size

\* C18 as stated: convert_raw_to_tfrecords_testset with normalization on fails,
\* no test record written, when the normalization file is missing or declares
\* another channel count than the descriptor's, and the mismatch error reports
\* the expected count and the count found.
C18_TestsetFails ==
    [][TestsetOnBadFile => TestsetFailed]_vars

\* C18, amended: so it is when the call generates the records, that is when
\* do_generate is set or test.tfrecords is not there; otherwise the call
\* returns and reads and writes nothing.
C18_TestsetFailsWhenGenerating ==
    [][TestsetOnBadFile
        => IF call'.ran
           THEN TestsetFailed
           ELSE call'.err = NoError /\ dir' = dir]_vars

\* a test set conversion failed on a file of another channel count
C18_Witness ==
    /\ call.op = "convert_raw_to_tfrecords_testset"
    /\ call.do_normalize
    /\ call.ran
    /\ call.err = SizeMismatch
    /\ dir.norm # <<>>
    /\ call.msg[2] # call.msg[4]
    /\ dir.test = <<>>

\* C20: when memory runs out in the batch strategy numpy_mean_and_std raises
\* MemoryError, with the hint at Welford's method, and returns no statistics;
\* convert_raw_to_tfrecords then writes neither the normalization file nor a
\* tfrecords file.
C20_MemoryErrorRaised ==
    [][(call'.op = "convert_raw_to_tfrecords" /\ call'.n = call.n + 1)
        => /\ call'.oom => call'.err = MemoryError
           /\ call'.err = MemoryError
                => /\ call'.oom
                   /\ call'.msg = TryWelford
                   /\ stats' = <<>>
                   /\ call'.written = {}
                   /\ dir'.norm = dir.norm
                   /\ dir'.train = dir.train
                   /\ dir'.validation = dir.validation
                   /\ dir'.test = dir.test
                   /\ dir'.named = dir.named]_vars

\* memory ran out in a second conversion, the files of the first are there
C20_Witness ==
    /\ call.op = "convert_raw_to_tfrecords"
    /\ call.oom
    /\ call.err = MemoryError
    /\ call.n = 2
    /\ dir.train # <<>>
    /\ dir.norm # <<>>

\* C19: for mean and std vectors of one length C >= 1, reading the file
\* written from them gives size C and the mean and the std written, entry by
\* entry, in order; blank and comment-only lines give no value. Every float
\* is the float its text is read as.
C19_RoundTrip ==
    /\ call.op = "read_mean_and_std"
        => /\ call.read.err = NoError
           /\ call.read.size = Len(stats[1].mean)
           /\ call.read.size = numChannels
           /\ call.read.mean = stats[1].mean
           /\ call.read.std = stats[1].std
    /\ \A x \in Floats : ParseFloat(FormatFloat(x)) = x

\* two channels, a mean that is not the std, a value whose text is a rounded
\* one, and a line more in the file than was written
C19_Witness ==
    /\ call.op = "read_mean_and_std"
    /\ numChannels = 2
    /\ stats[1].mean # stats[1].std
    /\ stats[1].mean[1] # stats[1].mean[2]
    /\ stats[1].mean[2] = [neg |-> FALSE, m |-> 5, e |-> -2]
    /\ Len(dir.norm[1]) = Len(stats[1].mean) + Len(stats[1].std) + 4
    /\ \E i \in 1..Len(dir.norm[1]) : dir.norm[1][i] = BlankLine

RecordsOf(file) == IF file = <<>> THEN {} ELSE Range(file[1])

\* C21: every record a conversion function writes carries the eight fields,
\* the configuration id among them, and so every field that _parse_function
\* requires: the reader takes every record written.
C21_RecordsCarryAllFields ==
    \A file \in TfrecordsFiles :
        \A record \in RecordsOf(file) :
            /\ record.features = Features \cup {"name"}
            /\ record.name # <<>>
            /\ ParseFunction(record).err = NoError

\* a stack of the form {input dropout} {linear, activation[, dropout]} x N
\* {final linear}, N >= 0, whose first width is the channel count and whose
\* last is 1
LayerGroupForm(s, size) ==
    \/ WellFormedBody(s, size)
    \/ /\ Len(s) >= 2
       /\ IsDropout(s[1])
       /\ WellFormedBody(Tail(s), size)

\* C22: the export of every stack of that form succeeds and writes the
\* network-parameter file completely; of a single linear layer from the
\* channel count to 1 it writes layer count 1, one weight block and one bias
\* block.
C22_LayerGroupFormExported ==
    (/\ lastOp = "write_kim_model"
     /\ hasLayers
     /\ LayerGroupForm(layers, descSize))
        => /\ lastErr = NoError
           /\ files.nn # <<>>
           /\ NNFile.complete
           /\ Len(layers) = 1
                => /\ NNFile.num_layers = 1
                   /\ Len(NNFile.blocks) = 1
                   /\ Len(NNFile.blocks[1].bias) = 1

\* the kinds of the activations of a stack, in order
ActivationKinds(ls) ==
    SelectSeq([i \in 1..Len(ls) |-> ls[i].kind], LAMBDA k : k \in ActivLayer)

\* C23: the activation line of the network-parameter file is the lowercased
\* kind of the activation of the first hidden group alone; the export does not
\* compare the activations of the hidden groups and does not raise when they
\* differ: a model of mixed activations is exported under the first one.
C23_FirstActivationOnly ==
    /\ Exported
        => /\ ActivationKinds(layers) # <<>>
           /\ NNFile.activation = <<Lower(ActivationKinds(layers)[1])>>
           /\ NNFile.activation = <<Lower(layers[LinearPositions(layers)[1] + 1].kind)>>
    /\ (/\ lastOp = "write_kim_model"
        /\ accepted
        /\ WellFormedBody(layers, descSize)
        /\ Len(layers) >= 2)
        => Exported

\* a model of a Sigmoid and a Tanh group was exported as sigmoid
C23_Witness ==
    /\ accepted
    /\ Exported
    /\ WellFormedBody(layers, descSize)
    /\ ActivationKinds(layers) = <<"Sigmoid", "Tanh">>
    /\ NNFile.activation = <<"sigmoid">>
    /\ NNFile.num_layers = 3

\* C24: write_kim_dropout_binary writes the repeat count 50 and then 50 mask
\* instances, whatever repeat the caller passes and also when every drop ratio
\* of the model is 0; a repeat count of 0 is never written.
C24_RepeatAlwaysFifty ==
    /\ files.dropout # <<>>
        => /\ DropoutFile.repeat = 50
           /\ DropoutFile.repeat # 0
    /\ (lastOp = "write_kim_dropout_binary" /\ lastErr = NoError)
        => /\ files.dropout # <<>>
           /\ DropoutFile.repeat = 50
           /\ Len(DropoutFile.instances) = 50

\* a model without dropout written with repeat=0 passed
C24_Witness ==
    /\ lastOp = "write_kim_dropout_binary"
    /\ lastErr = NoError
    /\ accepted
    /\ repeatArg = 0
    /\ \A i \in 1..Len(layers) : ~IsDropout(layers[i])
    /\ DropoutFile.repeat = 50
    /\ Len(DropoutFile.instances) = 50

\* the stack a shape check of add_layers refused is installed
Rejected ==
    /\ hasLayers
    /\ ~accepted
    /\ AddLayersShape(layers, descSize) = NeuralNetworkError

\* C25: when add_layers raises on a shape check, the layers it was given stay
\* installed: forward and the export work on the refused stack, and every
\* later add_layers call raises and leaves that stack in place.
C25_NoRollBack ==
    [][/\ (~hasLayers /\ lastOp' = "add_layers" /\ lastErr' = NeuralNetworkError)
            => /\ Rejected'
               /\ layers' # <<>>
               /\ Forward(hasLayers', layers').err = NoError
               /\ Forward(hasLayers', layers').applied = layers'
       /\ (Rejected /\ lastOp' = "add_layers")
            => /\ lastErr' = NeuralNetworkError
               /\ layers' = layers
               /\ Rejected'
       /\ (Rejected /\ lastOp' = "write_kim_model")
            => /\ Rejected'
               /\ layers' = layers
               /\ lastErr' = NoError
                    => /\ NNFile'.complete
                       /\ NNFile'.num_layers = Len(LinearPositions(layers))]_vars

\* a second add_layers call on a refused stack raised, and the refused stack
\* is still there
C25_Witness ==
    /\ Rejected
    /\ lastOp = "add_layers"
    /\ lastErr = NeuralNetworkError
    /\ files.nn # <<>>
    /\ NNFile.complete
    /\ NNFile.num_layers = Len(LinearPositions(layers))
    /\ Forward(hasLayers, layers).applied = layers

====
